---------------------------- MODULE Spec2Model ----------------------------
(***************************************************************************)
(* State-machine model of migrate.py (DuckyTheDuck bank migration tool).   *)
(*                                                                         *)
(* The filesystem is a map from file paths to file contents plus a set of  *)
(* directories.  A directory is the sequence of its components below       *)
(* "Documents"; the bank file "X.SC2Bank" in directory d is the path       *)
(* [dir |-> d, name |-> X, bak |-> 0], its backup "X.SC2Bank.bakN" the     *)
(* path with bak |-> N.                                                    *)
(* A file's content is a sequence of tokens; modification times and other  *)
(* metadata that shutil.copy2 carries over are not modelled.               *)
(*                                                                         *)
(* The GUI thread runs one handler at a time; a modal QMessageBox suspends *)
(* its handler in a nested event loop, which is modelled by a stack of     *)
(* open dialogs.  The MigrationWorker thread advances step by step.        *)
(***************************************************************************)
EXTENDS Integers, Sequences, FiniteSets, TLC

\* ------------------------------------------------------------------ bounds
\* largest backup number that may exist before the program starts
MaxBak == 1
\* number of finished batches after which no further batch is started
MaxBatches == 1
\* number of I/O operations that may fail in one behaviour
MaxFaults == 1

\* --------------------------------------------------------------- constants
OLD_PUBLISHER_ID == "5-S2-1-11831282"
NEW_PUBLISHER_ID == "5-S2-1-10786818"

\* the manifest, in manifest order (names without the ".SC2Bank" suffix)
BANK_FILES ==
    << "CrashRPGMaximumBank", "HSF", "PBRPG", "CDRPGBank", "NeoStarBank" >>

\* the manifest files that may exist on the modelled disk
DiskBankFiles == { BANK_FILES[1], BANK_FILES[3], BANK_FILES[4] }

\* the account folders that may exist on the modelled disk
BattleNetId == "123456789"
Handle == << "5", "-", "S", "2", "-", "1", "-", "7" >>
HandlePrefix == << "5", "-", "S", "2", "-", "1" >>

VARIABLES
    dirs,                 \* set of existing directories (paths)
    files,                \* existing regular files: path -> content
    scan_message,         \* message box shown by scan_accounts, "none" if none
    accounts,             \* MainWindow.accounts
    selected_account,     \* MainWindow.selected_account: index in accounts, 0 for None
    bank_list,            \* rows of MainWindow.bank_list: bank_file, checked, warning
    account_list_enabled, \* MainWindow.account_list.isEnabled()
    bank_group_enabled,   \* MainWindow.bank_group.isEnabled()
    migrate_btn_enabled,  \* MainWindow.migrate_btn.isEnabled()
    current_row,          \* row of account_list.currentItem(), 0 when there is none
    dialogs,              \* stack of open modal message boxes, top last
    reply,                \* last answer given to the confirmation box
    worker,               \* MainWindow.worker: number of the latest MigrationWorker, 0 for None
    threads,              \* running MigrationWorker threads: id -> frame of run()
    signals,              \* emitted finished(bool, str) signals not yet delivered
    batches,              \* number of finished signals handled so far
    faults                \* number of failed I/O operations so far

vars == << dirs, files, scan_message, accounts, selected_account, bank_list,
           account_list_enabled, bank_group_enabled, migrate_btn_enabled,
           current_row, dialogs, reply, worker, threads, signals,
           batches, faults >>

fsVars == << dirs, files >>
guiVars == << selected_account, bank_list, account_list_enabled,
              bank_group_enabled, migrate_btn_enabled, current_row >>
workerVars == << worker, threads, signals, batches >>

\* ------------------------------------------------------------- file paths
\* a directory is the sequence of its components below "Documents"
Sc2Path == << "StarCraft II" >>
AccountsPath == Sc2Path \o << "Accounts" >>

\* pathlib's dir / bank_file
BankPath(dir, bank_file) == [ dir |-> dir, name |-> bank_file, bak |-> 0 ]

\* target.parent / f"{target.name}.bak{backup_num}"
BackupPath(target, backup_num) ==
    [ dir |-> target.dir, name |-> target.name, bak |-> backup_num ]

\* Path.exists() of a file path
Exists(p) == p \in DOMAIN files

\* str.startswith
StartsWith(s, prefix) ==
    Len(s) >= Len(prefix) /\ SubSeq(s, 1, Len(prefix)) = prefix

\* Account.__init__
Account(account_path, battle_net_id, handle) ==
    [ path |-> account_path,
      battle_net_id |-> battle_net_id,
      handle |-> handle,
      old_bank_path |-> account_path \o << "Banks", OLD_PUBLISHER_ID >>,
      new_bank_path |-> account_path \o << "Banks", NEW_PUBLISHER_ID >> ]

\* only the test of line 53: the old bank folder exists
has_old_folder(account, ds, fs) == account.old_bank_path \in ds

\* Account.has_old_banks, on the disk (ds, fs)
has_old_banks(account, ds, fs) ==
    /\ account.old_bank_path \in ds
    /\ \E k \in 1..Len(BANK_FILES) :
          BankPath(account.old_bank_path, BANK_FILES[k]) \in DOMAIN fs

\* the files of directory dir as a sorted directory listing yields them
PresentInListing(dir) ==
    IF dir \notin dirs THEN << >>
    ELSE SelectSeq(<< "CDRPGBank", "CrashRPGMaximumBank", "HSF", "NeoStarBank",
                      "PBRPG", "Replay" >>,
                   LAMBDA b : Exists(BankPath(dir, b)))

\* the manifest files present in directory dir, in manifest order
PresentIn(dir) ==
    IF dir \notin dirs THEN << >>
    ELSE SelectSeq(BANK_FILES, LAMBDA b : Exists(BankPath(dir, b)))

\* Account.get_migratable_files
get_migratable_files(account) == PresentIn(account.old_bank_path)

\* Account.get_existing_target_files
get_existing_target_files(account) == PresentIn(account.new_bank_path)

SeqToSet(s) == { s[k] : k \in 1..Len(s) }


\* ----------------------------------------------------------- file contents
\* A content is a sequence of tokens; every token is a tuple that starts
\* with a string.  Whitespace between elements is left out.
Open == << "<Bank>" >>
Close == << "</Bank>" >>
SelfClosed == << "<Bank/>" >>
SigL == << "<Signature value=" >>
SigR == << "/>" >>
Key(k) == << "<Key>", k >>

\* "no signature": what sc2bank.parse returns for a bank without one
NoSignature == << >>

\* sc2bank.sign: a deterministic function of its four arguments
sign(author_id, user_id, bank_name, bank) ==
    << "sig", author_id, user_id, bank_name, bank >>

\* an element with one attribute is three tokens: its opening text, the
\* attribute's value as written, and "/>"
ValL == << "<Value string=" >>

\* attribute values as written in a file: a signature, the empty string, and
\* a text written with a character reference
EmptyValue == << "" >>
EscapedValue == << "&#65;" >>

IsValue(tok) == tok[1] \in { "sig", "", "&#65;", "A" }

\* the value an XML parser hands out for the attribute value written as tok
Unescape(tok) == IF tok = EscapedValue THEN << "A" >> ELSE tok

\* Python's truth value of old_signature: None and "" are false
Truthy(v) == v # NoSignature /\ v # EmptyValue

\* the elements of a bank between <Bank> and </Bank>, read from position k
RECURSIVE ParseItems(_, _)
ParseItems(c, k) ==
    IF k > Len(c) - 1
    THEN [ ok |-> TRUE, bank |-> << >>, sigs |-> << >> ]
    ELSE IF c[k][1] = "<Key>"
    THEN LET r == ParseItems(c, k + 1)
         IN  [ r EXCEPT !.bank = << c[k] >> \o @ ]
    ELSE IF c[k] \in { SigL, ValL } /\ k + 2 <= Len(c) - 1
            /\ IsValue(c[k + 1]) /\ c[k + 2] = SigR
    THEN LET r == ParseItems(c, k + 3)
         IN  IF c[k] = SigL
             THEN [ r EXCEPT !.sigs = << Unescape(c[k + 1]) >> \o @ ]
             ELSE [ r EXCEPT !.bank =
                               << << "<Value>", Unescape(c[k + 1]) >> >> \o @ ]
    ELSE [ ok |-> FALSE, bank |-> << >>, sigs |-> << >> ]

\* sc2bank.parse: ok is FALSE where the library raises
parse(c) ==
    IF c = << SelfClosed >>
    THEN [ ok |-> TRUE, bank |-> << >>, old_signature |-> NoSignature ]
    ELSE IF Len(c) >= 2 /\ c[1] = Open /\ c[Len(c)] = Close
    THEN LET r == ParseItems(c, 2)
         IN  [ ok |-> r.ok, bank |-> r.bank,
               old_signature |->
                   IF r.sigs = << >> THEN NoSignature ELSE r.sigs[1] ]
    ELSE [ ok |-> FALSE, bank |-> << >>, old_signature |-> NoSignature ]

\* sub in content
Contains(c, tok) == \E k \in 1..Len(c) : c[k] = tok

\* content.replace(old, new) where old is one token and new a token sequence
RECURSIVE Replace(_, _, _)
Replace(c, old, new) ==
    IF c = << >> THEN << >>
    ELSE (IF Head(c) = old THEN new ELSE << Head(c) >>)
         \o Replace(Tail(c), old, new)

\* resign_bank_file up to the write: the new content, or failure
resign_content(content, user_id, bank_name) ==
    LET p == parse(content)
        new_signature == sign(NEW_PUBLISHER_ID, user_id, bank_name, p.bank)
    IN  IF ~p.ok THEN [ ok |-> FALSE, content |-> content ]
        ELSE IF Truthy(p.old_signature)
                /\ Contains(content, p.old_signature)
        THEN [ ok |-> TRUE,
               content |-> Replace(content, p.old_signature,
                                   << new_signature >>) ]
        ELSE IF Contains(content, Close)
        THEN [ ok |-> TRUE,
               content |-> Replace(content, Close,
                                   << SigL, new_signature, SigR, Close >>) ]
        ELSE [ ok |-> FALSE, content |-> content ]

\* the kinds of failure of an I/O operation that writes file dst:
\* "open" fails before dst is opened, "write" after dst was truncated,
\* "stat" after the data was written (shutil.copystat)
CopyFaults == { "open", "write", "stat" }
WriteFaults == { "open", "write" }

\* what is left of a file whose writing failed part way
Truncated == << >>

\* the files after open(dst, 'w').write(content), with outcome out
WriteFile(fs, dst, content, out) ==
    IF out = "open" THEN fs
    ELSE [ p \in DOMAIN fs \cup { dst } |->
             IF p = dst
             THEN (IF out = "write" THEN Truncated ELSE content)
             ELSE fs[p] ]

\* the files after shutil.copy2(src, dst) with outcome out ("ok" or a fault);
\* src exists
copy2(fs, src, dst, out) == WriteFile(fs, dst, fs[src], out)


\* ------------------------------------------------------------ initial disk
AccountPath == AccountsPath \o << BattleNetId, Handle >>
TheAccount == Account(AccountPath, BattleNetId, Handle)

\* the bank files found at the old location: one signed by the old
\* publisher, one without signature, one cut off before its closing tag
SourceKind(bank_file) ==
    CASE bank_file = BANK_FILES[1] -> "signed"
      [] bank_file = BANK_FILES[3] -> "unsigned"
      [] OTHER -> "cut"

SourceContent(bank_file) ==
    LET bank == << Key("old") >>
        kind == SourceKind(bank_file)
    IN  CASE kind = "signed" ->
               << Open >> \o bank
               \o << SigL, sign(OLD_PUBLISHER_ID, Handle, bank_file, bank), SigR,
                     Close >>
          [] kind = "unsigned" -> << Open >> \o bank \o << Close >>
          [] kind = "cut" -> << Open >> \o bank

\* a bank saved earlier under the new publisher
TargetContent(bank_file) ==
    LET bank == << Key("new") >>
    IN  << Open >> \o bank
        \o << SigL, sign(NEW_PUBLISHER_ID, Handle, bank_file, bank), SigR, Close >>

\* a backup left by an earlier run
BackupContent(bank_file) == << Open, Key("bak"), Close >>

\* all directories from d up to the root
Ancestors(d) == { SubSeq(d, 1, k) : k \in 1..Len(d) }

InitDirs(root, olds, news, baks) ==
    CASE root = "no_sc2" -> { }
      [] root = "no_accounts" -> { Sc2Path }
      [] root = "ok" ->
           Ancestors(AccountPath)
           \cup (IF olds = { } THEN { }
                 ELSE Ancestors(TheAccount.old_bank_path))
           \cup (IF news = { } /\ baks = { } THEN { }
                 ELSE Ancestors(TheAccount.new_bank_path))

InitFiles(root, olds, news, baks) ==
    IF root # "ok" THEN << >>
    ELSE LET O == { BankPath(TheAccount.old_bank_path, b) : b \in olds }
             N == { BankPath(TheAccount.new_bank_path, b) : b \in news }
             B == { BackupPath(BankPath(TheAccount.new_bank_path, x[1]), x[2])
                      : x \in baks }
         IN  [ p \in O \cup N \cup B |->
                 IF p \in O THEN SourceContent(p.name)
                 ELSE IF p \in N THEN TargetContent(p.name)
                 ELSE BackupContent(p.name) ]

\* the orders in which iterdir may yield the members of S
Orders(S) ==
    { s \in [ 1..Cardinality(S) -> S ] :
        \A i, j \in 1..Cardinality(S) : s[i] = s[j] => i = j }

\* MainWindow.scan_accounts on the disk (ds, fs): the handle folders that
\* pass the prefix filter and have old banks
ScannedFolders(ds, fs) ==
    { d \in ds :
        /\ Len(d) = 4
        /\ SubSeq(d, 1, 2) = AccountsPath
        /\ StartsWith(d[4], HandlePrefix)
        /\ has_old_banks(Account(d, d[3], d[4]), ds, fs) }

\* only the test of line 243: the StarCraft II folder exists
scan_message_sc2_only(ds, fs) ==
    IF Sc2Path \notin ds THEN "no_sc2"
    ELSE IF ScannedFolders(ds, fs) = { } THEN "no_migratable"
    ELSE "none"

\* the message box scan_accounts shows, "none" when it shows none
scan_message_of(ds, fs) ==
    IF Sc2Path \notin ds THEN "no_sc2"
    ELSE IF AccountsPath \notin ds THEN "no_accounts"
    ELSE IF ScannedFolders(ds, fs) = { } THEN "no_migratable"
    ELSE "none"

scan_accounts(ds, fs) ==
    IF Sc2Path \notin ds \/ AccountsPath \notin ds THEN { << >> }
    ELSE { [ k \in 1..Len(o) |-> Account(o[k], o[k][3], o[k][4]) ]
             : o \in Orders(ScannedFolders(ds, fs)) }

\* state after MainWindow.__init__ (init_ui, then scan_accounts)
Init ==
    /\ \E root \in { "no_sc2", "no_accounts", "ok" },
          olds \in SUBSET DiskBankFiles,
          ns \in SUBSET (1..MaxBak) :
          \E news \in SUBSET olds :
             /\ dirs = InitDirs(root, olds, news, news \X ns)
             /\ files = InitFiles(root, olds, news, news \X ns)
    /\ scan_message = scan_message_of(dirs, files)
    /\ accounts \in scan_accounts(dirs, files)
    /\ selected_account = 0
    /\ bank_list = << >>
    /\ account_list_enabled = TRUE
    /\ bank_group_enabled = FALSE
    /\ migrate_btn_enabled = FALSE
    /\ current_row = 0
    /\ dialogs = << >>
    /\ reply = "None"
    /\ worker = 0
    /\ threads = << >>
    /\ signals = << >>
    /\ batches = 0
    /\ faults = 0

\* MainWindow.__init__ on the disk (dirs, files): init_ui, then scan_accounts
Constructed ==
    /\ scan_message = scan_message_of(dirs, files)
    /\ accounts \in scan_accounts(dirs, files)
    /\ selected_account = 0
    /\ bank_list = << >>
    /\ account_list_enabled = TRUE
    /\ bank_group_enabled = FALSE
    /\ migrate_btn_enabled = FALSE
    /\ current_row = 0
    /\ dialogs = << >>
    /\ reply = "None"
    /\ worker = 0
    /\ threads = << >>
    /\ signals = << >>
    /\ batches = 0
    /\ faults = 0

\* ------------------------------------------------------------- GUI thread
NoDialog == dialogs = << >>
Top == dialogs[Len(dialogs)]
Pop == SubSeq(dialogs, 1, Len(dialogs) - 1)

\* a modal QMessageBox; a and b are the two numbers its text shows
Dialog(kind, selected_files, a, b) ==
    [ kind |-> kind, selected_files |-> selected_files, a |-> a, b |-> b ]

\* the rows on_account_selected puts in bank_list for account
BankRows(account) ==
    LET migratable == get_migratable_files(account)
        existing == get_existing_target_files(account)
    IN  [ k \in 1..Len(migratable) |->
            [ bank_file |-> migratable[k],
              checked |-> TRUE,
              warning |-> migratable[k] \in SeqToSet(existing) ] ]

\* body of MainWindow.on_account_selected for the item in row
AccountSelected(row) ==
    /\ selected_account' = row
    /\ bank_list' = BankRows(accounts[row])
    /\ bank_group_enabled' = TRUE
    /\ migrate_btn_enabled' = TRUE

\* the user clicks an account: itemClicked -> on_account_selected
on_account_selected(row) ==
    /\ NoDialog
    /\ account_list_enabled
    /\ row \in 1..Len(accounts)
    /\ AccountSelected(row)
    /\ current_row' = row
    /\ UNCHANGED << fsVars, scan_message, accounts, account_list_enabled,
                    dialogs, reply, workerVars, faults >>

SetChecked(rows, ks, value) ==
    [ k \in 1..Len(rows) |->
        IF k \in ks THEN [ rows[k] EXCEPT !.checked = value ] ELSE rows[k] ]

\* the user ticks or unticks the checkbox of row k
toggle_checkbox(k) ==
    /\ NoDialog
    /\ bank_group_enabled
    /\ k \in 1..Len(bank_list)
    /\ bank_list' = SetChecked(bank_list, { k }, ~bank_list[k].checked)
    /\ UNCHANGED << fsVars, scan_message, accounts, selected_account,
                    account_list_enabled, bank_group_enabled,
                    migrate_btn_enabled, current_row, dialogs, reply,
                    workerVars, faults >>

\* MainWindow.select_all_banks / deselect_all_banks
set_all_banks(value) ==
    /\ NoDialog
    /\ bank_group_enabled
    /\ bank_list' = SetChecked(bank_list, 1..Len(bank_list), value)
    /\ bank_list' # bank_list
    /\ UNCHANGED << fsVars, scan_message, accounts, selected_account,
                    account_list_enabled, bank_group_enabled,
                    migrate_btn_enabled, current_row, dialogs, reply,
                    workerVars, faults >>

select_all_banks == set_all_banks(TRUE)
deselect_all_banks == set_all_banks(FALSE)

\* the bank files of bank_list, checked or not
ListedFiles == [ k \in 1..Len(bank_list) |-> bank_list[k].bank_file ]

\* the checked bank files of bank_list, in list order
CheckedFiles ==
    LET checked == SelectSeq(bank_list, LAMBDA r : r.checked)
    IN  [ k \in 1..Len(checked) |-> checked[k].bank_file ]

\* MainWindow.start_migration up to the message box it opens
start_migration ==
    /\ NoDialog
    /\ migrate_btn_enabled
    /\ batches < MaxBatches
    /\ selected_account # 0
    /\ LET selected_files == CheckedFiles
           existing == get_existing_target_files(accounts[selected_account])
           existing_selected ==
               SelectSeq(selected_files, LAMBDA f : f \in SeqToSet(existing))
       IN  dialogs' =
             Append(dialogs,
                    IF selected_files = << >>
                    THEN Dialog("warning", << >>, 0, 0)
                    ELSE Dialog("confirm", selected_files,
                                Len(selected_files), Len(existing_selected)))
    /\ UNCHANGED << fsVars, scan_message, accounts, guiVars, reply,
                    workerVars, faults >>

\* the frame of MigrationWorker.run before its first statement; log (the
\* outcome of every file handled so far), resigned (what the last call of
\* resign_bank_file returned) and files0 (the files when the worker was
\* started) are kept for the properties only
NewThread(account, selected_files) ==
    [ account |-> account,
      selected_files |-> selected_files,
      pc |-> "mkdir",
      i |-> 1,
      migrated_count |-> 0,
      backup_count |-> 0,
      backup_num |-> 0,
      log |-> << >>,
      resigned |-> "None",
      files0 |-> files ]

\* reply == QMessageBox.StandardButton.No
DeclinedNever(answer) == FALSE
Declined(answer) == answer = "No"

\* start_migration disables the three controls before it starts the worker
DisableListsOnly ==
    /\ account_list_enabled' = FALSE
    /\ bank_group_enabled' = FALSE
    /\ migrate_btn_enabled' = migrate_btn_enabled
DisableControls ==
    /\ account_list_enabled' = FALSE
    /\ bank_group_enabled' = FALSE
    /\ migrate_btn_enabled' = FALSE

\* MainWindow.start_migration from the answer to the confirmation box
confirm_reply(answer) ==
    /\ dialogs # << >>
    /\ Top.kind = "confirm"
    /\ dialogs' = Pop
    /\ reply' = answer
    /\ IF Declined(answer)
       THEN UNCHANGED << guiVars, workerVars >>
       ELSE /\ DisableControls
            /\ worker' = worker + 1
            /\ threads' = (worker + 1 :> NewThread(accounts[selected_account],
                                                   Top.selected_files))
                          @@ threads
            /\ UNCHANGED << selected_account, bank_list, current_row, signals,
                            batches >>
    /\ UNCHANGED << fsVars, scan_message, accounts, faults >>

\* MainWindow.on_migration_finished up to the message box it opens
on_migration_finished ==
    /\ signals # << >>
    /\ signals' = Tail(signals)
    /\ account_list_enabled' = TRUE
    /\ bank_group_enabled' = TRUE
    /\ migrate_btn_enabled' = TRUE
    /\ dialogs' =
         Append(dialogs,
                IF Head(signals).success
                THEN Dialog("information", << >>, Head(signals).migrated_count,
                            Head(signals).backup_count)
                ELSE Dialog("critical", << >>, 0, 0))
    /\ batches' = batches + 1
    /\ UNCHANGED << fsVars, scan_message, accounts, selected_account,
                    bank_list, current_row, reply, worker, threads, faults >>

\* the user closes a message box other than the confirmation; after the
\* "information" box on_migration_finished refreshes the bank list
close_dialog ==
    /\ dialogs # << >>
    /\ Top.kind # "confirm"
    /\ dialogs' = Pop
    /\ IF Top.kind = "information" /\ current_row # 0
       THEN /\ AccountSelected(current_row)
            /\ UNCHANGED << account_list_enabled, current_row >>
       ELSE UNCHANGED guiVars
    /\ UNCHANGED << fsVars, scan_message, accounts, reply, workerVars, faults >>

\* ----------------------------------------------------------- worker thread
\* the outcomes an I/O operation may have: "ok", or one of the given faults
\* while the behaviour may still have one
Outcomes(kinds) == { "ok" } \cup (IF faults < MaxFaults THEN kinds ELSE { })

Fault(out) == faults' = faults + (IF out = "ok" THEN 0 ELSE 1)

SourceAtNew(th) == BankPath(th.account.new_bank_path, th.selected_files[th.i])
Source(th) == BankPath(th.account.old_bank_path, th.selected_files[th.i])
TargetAtOld(th) == BankPath(th.account.old_bank_path, th.selected_files[th.i])
Target(th) == BankPath(th.account.new_bank_path, th.selected_files[th.i])

\* the while loop of run: the first backup_num from n on whose name is free
RECURSIVE Probe(_, _)
ProbeFirst(target, n) == n
Probe(target, n) ==
    IF ~Exists(BackupPath(target, n)) THEN n ELSE Probe(target, n + 1)

\* the frame once the file in hand is finished with outcome o
\* ("migrated" after the copy, else the except clause of the loop body)
Logged(th, o) ==
    [ th EXCEPT !.log = Append(@, [ bank_file |-> th.selected_files[th.i],
                                     outcome |-> o ]) ]

\* head of the for loop with the test target.exists(), on the files fs:
\* where run goes on with file number i
ForLoopNoBackup(th, i, fs) ==
    [ th EXCEPT !.i = i,
                !.pc = IF i > Len(th.selected_files) THEN "emit" ELSE "copy" ]
ForLoopOffByOne(th, i, fs) ==
    [ th EXCEPT !.i = i,
                !.pc = IF i >= Len(th.selected_files) THEN "emit"
                       ELSE IF BankPath(th.account.new_bank_path,
                                        th.selected_files[i]) \in DOMAIN fs
                       THEN "backup"
                       ELSE "copy" ]
ForLoop(th, i, fs) ==
    [ th EXCEPT !.i = i,
                !.pc = IF i > Len(th.selected_files) THEN "emit"
                       ELSE IF BankPath(th.account.new_bank_path,
                                        th.selected_files[i]) \in DOMAIN fs
                       THEN "backup"
                       ELSE "copy" ]

NextFile(th, fs) == ForLoop(th, th.i + 1, fs)

\* "except Exception: pass": the loop goes on with the next file
ExceptBreak(th, fs) == [ th EXCEPT !.pc = "emit" ]
ExceptPass(th, fs) == NextFile(th, fs)

\* the frame after shutil.copy2(target, backup_path) with outcome out left
\* the files fs
BackupUnchecked(th, backup_num, out, fs) ==
    [ th EXCEPT !.backup_num = backup_num, !.pc = "copy" ]
AfterBackup(th, backup_num, out, fs) ==
    IF out = "ok"
    THEN [ th EXCEPT !.backup_num = backup_num, !.backup_count = @ + 1,
                     !.pc = "copy" ]
    ELSE ExceptPass(Logged([ th EXCEPT !.backup_num = backup_num ],
                           "backup_failed"), fs)

\* the arguments of finished.emit(success, msg): msg shows migrated_count,
\* and backup_count when it is positive
Result(success, migrated_count, backup_count) ==
    [ success |-> success,
      migrated_count |-> migrated_count,
      backup_count |-> backup_count ]

\* the failed file names a result names: run keeps none ("except: pass")
failed_filenames(result) == { }

\* only the report after the loop is sent
EmitOnSuccess(success, migrated_count, backup_count) ==
    signals' = IF success
               THEN Append(signals, Result(success, migrated_count, backup_count))
               ELSE signals

Emit(success, migrated_count, backup_count) ==
    signals' = Append(signals, Result(success, migrated_count, backup_count))

Without(t) == [ u \in DOMAIN threads \ { t } |-> threads[u] ]

\* new_bank_path.mkdir(parents=True, exist_ok=True); a failure leaves run
\* through the outer except clause
run_mkdir(t) ==
    /\ t \in DOMAIN threads
    /\ threads[t].pc = "mkdir"
    /\ \E out \in Outcomes({ "open" }) :
          /\ Fault(out)
          /\ IF out = "ok"
             THEN /\ dirs' = dirs \cup Ancestors(threads[t].account.new_bank_path)
                  /\ threads' = [ threads EXCEPT ![t] = ForLoop(@, 1, files) ]
                  /\ UNCHANGED signals
             ELSE /\ Emit(FALSE, 0, 0)
                  /\ threads' = Without(t)
                  /\ UNCHANGED dirs
    /\ UNCHANGED << files, scan_message, accounts, guiVars, dialogs, reply,
                    worker, batches >>

\* the probing loop and shutil.copy2(target, backup_path)
run_backup(t) ==
    /\ t \in DOMAIN threads
    /\ threads[t].pc = "backup"
    /\ LET th == threads[t]
           target == Target(th)
           backup_num == Probe(target, 1)
           backup_path == BackupPath(target, backup_num)
       IN  \E out \in Outcomes(CopyFaults) :
             /\ Fault(out)
             /\ files' = copy2(files, target, backup_path, out)
             /\ threads' =
                  [ threads EXCEPT ![t] = AfterBackup(th, backup_num, out, files') ]
    /\ UNCHANGED << dirs, scan_message, accounts, guiVars, dialogs, reply,
                    worker, signals, batches >>

\* shutil.copy2(source, target)
run_copy(t) ==
    /\ t \in DOMAIN threads
    /\ threads[t].pc = "copy"
    /\ LET th == threads[t]
           source == Source(th)
           target == Target(th)
       IN  IF ~Exists(source)
           THEN /\ threads' =
                     [ threads EXCEPT ![t] =
                         ExceptPass(Logged(th, "copy_failed"), files) ]
                /\ UNCHANGED << files, faults >>
           ELSE \E out \in Outcomes(CopyFaults) :
                  /\ Fault(out)
                  /\ files' = copy2(files, source, target, out)
                  /\ threads' =
                       [ threads EXCEPT ![t] =
                           IF out = "ok"
                           THEN [ Logged(th, "migrated")
                                    EXCEPT !.migrated_count = @ + 1,
                                           !.pc = "resign" ]
                           ELSE ExceptPass(Logged(th, "copy_failed"), files') ]
    /\ UNCHANGED << dirs, scan_message, accounts, guiVars, dialogs, reply,
                    worker, signals, batches >>

\* the file counts only when resign_bank_file returned True
ResignCounted(th, resigned, fs) ==
    IF resigned THEN NextFile([ th EXCEPT !.resigned = "True" ], fs)
    ELSE NextFile([ th EXCEPT !.migrated_count = @ - 1,
                              !.resigned = "False" ], fs)

\* the frame after resign_bank_file returned resigned: the value is dropped
\* and the loop goes on with the next file
AfterResign(th, resigned, fs) ==
    NextFile([ th EXCEPT !.resigned = IF resigned THEN "True" ELSE "False" ], fs)

\* self.resign_bank_file(target, self.account.handle), result dropped
run_resign(t) ==
    /\ t \in DOMAIN threads
    /\ threads[t].pc = "resign"
    /\ LET th == threads[t]
           target == Target(th)
           r == resign_content(files[target], th.account.handle, target.name)
       IN  IF r.ok
           THEN \E out \in Outcomes(WriteFaults) :
                  /\ Fault(out)
                  /\ files' = WriteFile(files, target, r.content, out)
                  /\ threads' =
                       [ threads EXCEPT ![t] = AfterResign(th, out = "ok", files') ]
           ELSE /\ UNCHANGED << files, faults >>
                /\ threads' =
                     [ threads EXCEPT ![t] = AfterResign(th, FALSE, files') ]
    /\ UNCHANGED << dirs, scan_message, accounts, guiVars, dialogs, reply,
                    worker, signals, batches >>

\* the message after the loop and self.finished.emit(True, msg)
run_emit(t) ==
    /\ t \in DOMAIN threads
    /\ threads[t].pc = "emit"
    /\ Emit(TRUE, threads[t].migrated_count, threads[t].backup_count)
    /\ threads' = Without(t)
    /\ UNCHANGED << fsVars, scan_message, accounts, guiVars, dialogs, reply,
                    worker, batches, faults >>

Next ==
    \/ \E row \in 1..Len(accounts) : on_account_selected(row)
    \/ \E k \in 1..Len(bank_list) : toggle_checkbox(k)
    \/ select_all_banks
    \/ deselect_all_banks
    \/ start_migration
    \/ \E answer \in { "Yes", "No" } : confirm_reply(answer)
    \/ on_migration_finished
    \/ close_dialog
    \/ \E t \in DOMAIN threads : run_mkdir(t)
    \/ \E t \in DOMAIN threads : run_backup(t)
    \/ \E t \in DOMAIN threads : run_copy(t)
    \/ \E t \in DOMAIN threads : run_resign(t)
    \/ \E t \in DOMAIN threads : run_emit(t)

Spec == Init /\ [][Next]_vars

\* state after MainWindow.__init__ on a disk with one account and two bank
\* files, a signed one and one that is cut off, each of which may be at the
\* new location too
TwoFilesInit ==
    /\ \E news \in SUBSET { BANK_FILES[1], BANK_FILES[4] } :
          /\ dirs = InitDirs("ok", { BANK_FILES[1], BANK_FILES[4] }, news, { })
          /\ files = InitFiles("ok", { BANK_FILES[1], BANK_FILES[4] }, news, { })
    /\ Constructed

\* MigrationWorker.run: the next step of the worker thread t
run(t) ==
    run_mkdir(t) \/ run_backup(t) \/ run_copy(t) \/ run_resign(t) \/ run_emit(t)

\* a started thread keeps running until run returns, and the event loop of
\* the GUI thread delivers every queued signal
FairSpec ==
    /\ TwoFilesInit /\ [][Next]_vars
    /\ WF_vars(\E t \in DOMAIN threads : run(t))
    /\ WF_vars(on_migration_finished)

\* ------------------------------------------- discovery on a disk of folders
\* handle folders that may lie under the battle.net folder: the second is
\* another account of the same region, the third one of another region
Handle2 == << "5", "-", "S", "2", "-", "1", "-", "8" >>
ForeignHandle == << "2", "-", "S", "2", "-", "1", "-", "7" >>

\* a file in a bank folder that is not in the manifest
OtherFile == "Replay"

\* what a handle folder may hold: nothing at all ("absent": no folder), no
\* Banks folder ("bare"), or bank folders with the files named
FolderKinds ==
    { "absent", "bare", "other_only", "old1", "old13_new3", "old1_new13" }

OldNames(kind) ==
    CASE kind = "other_only" -> { OtherFile }
      [] kind = "old1" -> { BANK_FILES[1] }
      [] kind = "old13_new3" -> { BANK_FILES[1], BANK_FILES[3] }
      [] kind = "old1_new13" -> { BANK_FILES[1], OtherFile }
      [] OTHER -> { }

NewNames(kind) ==
    CASE kind = "old13_new3" -> { BANK_FILES[3] }
      [] kind = "old1_new13" -> { BANK_FILES[1], BANK_FILES[3], OtherFile }
      [] OTHER -> { }

\* the bank files at the new location that have a backup .bak1
BakNames(kind) ==
    IF kind = "old13_new3" THEN { BANK_FILES[3] } ELSE { }

FolderPath(handle) == AccountsPath \o << BattleNetId, handle >>

\* the directories and files of the handle folder of kind kind
FolderDirs(handle, kind) ==
    LET a == Account(FolderPath(handle), BattleNetId, handle)
    IN  (IF kind = "absent" THEN { } ELSE Ancestors(a.path))
        \cup (IF OldNames(kind) = { } THEN { } ELSE Ancestors(a.old_bank_path))
        \cup (IF NewNames(kind) = { } THEN { } ELSE Ancestors(a.new_bank_path))

FolderFiles(handle, kind) ==
    LET a == Account(FolderPath(handle), BattleNetId, handle)
        O == { BankPath(a.old_bank_path, b) : b \in OldNames(kind) }
        N == { BankPath(a.new_bank_path, b) : b \in NewNames(kind) }
        B == { BackupPath(BankPath(a.new_bank_path, b), 1) : b \in BakNames(kind) }
    IN  [ p \in O \cup N \cup B |->
            IF p \in O THEN SourceContent(p.name)
            ELSE IF p \in N THEN TargetContent(p.name)
            ELSE BackupContent(p.name) ]

\* state after MainWindow.__init__ on a disk with up to two handle folders
ScanInit ==
    /\ \E k1 \in FolderKinds, k2 \in FolderKinds,
          h2 \in { Handle2, ForeignHandle } :
          /\ dirs = Ancestors(AccountsPath \o << BattleNetId >>)
                    \cup FolderDirs(Handle, k1) \cup FolderDirs(h2, k2)
          /\ files = FolderFiles(Handle, k1) @@ FolderFiles(h2, k2)
    /\ Constructed

ScanSpec == ScanInit /\ [][Next]_vars

\* ------------------------------------------------ resigning various banks
\* the signature the old publisher's bank carries
OldSignature(bank_file) ==
    sign(OLD_PUBLISHER_ID, Handle, bank_file, << Key("old") >>)

\* the texts the bank file at the old location may hold
Contents(bank_file) ==
    LET sig == OldSignature(bank_file)
    IN  { \* signed, the signature last or first
          << Open, Key("old"), SigL, sig, SigR, Close >>,
          << Open, SigL, sig, SigR, Key("old"), Close >>,
          \* no signature
          << Open, Key("old"), Close >>,
          << Open, Close >>,
          \* an empty root element, a text cut off, a text without root
          << SelfClosed >>,
          << Open, Key("old") >>,
          << Key("old") >>,
          \* a signature element whose value is empty
          << Open, Key("old"), SigL, EmptyValue, SigR, Close >>,
          \* a signature written with a character reference
          << Open, Key("old"), SigL, EscapedValue, SigR, Close >>,
          \* a value that reads like the signature
          << Open, ValL, sig, SigR, SigL, sig, SigR, Close >> }

\* state after MainWindow.__init__ on a disk with one account and one bank
\* file, which may be at the new location too
ResignInit ==
    /\ dirs = Ancestors(TheAccount.old_bank_path)
              \cup Ancestors(TheAccount.new_bank_path)
    /\ \E content \in Contents(BANK_FILES[1]), there \in BOOLEAN :
          files =
            (BankPath(TheAccount.old_bank_path, BANK_FILES[1]) :> content)
            @@ (IF there
                THEN BankPath(TheAccount.new_bank_path, BANK_FILES[1])
                       :> TargetContent(BANK_FILES[1])
                ELSE << >>)
    /\ Constructed

ResignSpec == ResignInit /\ [][Next]_vars

\* ------------------------------------------------------------- properties
\* the paths of a worker's file in hand, written out from the Account fields
OldFile(th) ==
    [ dir |-> th.account.path \o << "Banks", OLD_PUBLISHER_ID >>,
      name |-> th.selected_files[th.i], bak |-> 0 ]
NewFile(th) ==
    [ dir |-> th.account.path \o << "Banks", NEW_PUBLISHER_ID >>,
      name |-> th.selected_files[th.i], bak |-> 0 ]
NewFileOf(th, bank_file) ==
    [ dir |-> th.account.path \o << "Banks", NEW_PUBLISHER_ID >>,
      name |-> bank_file, bak |-> 0 ]
BackupOf(p, n) == [ dir |-> p.dir, name |-> p.name, bak |-> n ]

\* the backups of file p that exist among the files fs
BackupNumbers(p, fs) == { q.bak : q \in { r \in DOMAIN fs : r.dir = p.dir /\ r.name = p.name /\ r.bak > 0 } }

\* the worker t handles its file's backup in this step and the copy succeeds
BackupMade(t) ==
    /\ t \in DOMAIN threads /\ t \in DOMAIN threads'
    /\ threads[t].pc = "backup"
    /\ threads'[t].backup_count = threads[t].backup_count + 1

\* C1: a backup of an existing target is written to the smallest free
\* <target>.bak<N>, N >= 1, and no step overwrites, changes or removes a
\* backup file that exists
C1_BackupNaming ==
    [][ /\ \A p \in DOMAIN files :
             p.bak > 0 => p \in DOMAIN files' /\ files'[p] = files[p]
        /\ \A t \in DOMAIN threads :
             BackupMade(t) =>
                LET target == NewFile(threads[t])
                    taken == BackupNumbers(target, files)
                IN  \E n \in 1..(Cardinality(taken) + 1) :
                       /\ n \notin taken
                       /\ \A m \in 1..(n - 1) : m \in taken
                       /\ DOMAIN files' = DOMAIN files \cup { BackupOf(target, n) }
                       /\ files'[BackupOf(target, n)] = files[target] ]_vars

\* a worker has written .bak2 next to a .bak1 that was there before it started
C1_Witness ==
    \E t \in DOMAIN threads :
       \E p \in DOMAIN files \ DOMAIN threads[t].files0 :
          /\ p.bak = 2
          /\ BackupOf(p, 1) \in DOMAIN threads[t].files0
          /\ files[BackupOf(p, 1)] = threads[t].files0[BackupOf(p, 1)]
          /\ files[p] = threads[t].files0[BackupOf(p, 0)]

\* the worker t copies its file in hand in this step and the copy succeeds
CopyDone(t) ==
    /\ t \in DOMAIN threads /\ t \in DOMAIN threads'
    /\ threads[t].pc = "copy"
    /\ threads'[t].migrated_count = threads[t].migrated_count + 1

\* C2: when the copy of a file succeeds, the target holds what the source
\* held, and a target that existed before has a backup that holds what the
\* target held
C2_CopyCorrect ==
    [][ \A t \in DOMAIN threads :
          CopyDone(t) =>
             LET th == threads[t]
             IN  /\ NewFile(th) \in DOMAIN files'
                 /\ files'[NewFile(th)] = files[OldFile(th)]
                 /\ NewFile(th) \in DOMAIN files =>
                      /\ th.backup_num >= 1
                      /\ BackupOf(NewFile(th), th.backup_num) \in DOMAIN files'
                      /\ BackupOf(NewFile(th), th.backup_num) \notin DOMAIN th.files0
                      /\ files'[BackupOf(NewFile(th), th.backup_num)]
                           = files[NewFile(th)] ]_vars

\* a worker has just copied a file over a target that existed: the target
\* holds the source's content, a new backup the target's former content
C2_Witness ==
    \E t \in DOMAIN threads :
       LET th == threads[t]
       IN  /\ th.pc = "resign"
           /\ NewFile(th) \in DOMAIN th.files0
           /\ files[NewFile(th)] = th.files0[OldFile(th)]
           /\ files[NewFile(th)] # th.files0[NewFile(th)]
           /\ files[BackupOf(NewFile(th), th.backup_num)] = th.files0[NewFile(th)]

\* the worker t handles its file's backup in this step and the copy fails
BackupFailed(t) ==
    /\ t \in DOMAIN threads /\ t \in DOMAIN threads'
    /\ threads[t].pc = "backup"
    /\ threads'[t].backup_count = threads[t].backup_count

\* C3: a worker is about to overwrite an existing target only when the
\* backup it made holds the target's content; when the backup fails, the
\* target is left as it is, nothing is counted, and the file is given up
C3_BackupFirst ==
    /\ [](\A t \in DOMAIN threads :
            LET th == threads[t]
            IN  th.pc = "copy" /\ NewFile(th) \in DOMAIN files =>
                   /\ BackupOf(NewFile(th), th.backup_num) \in DOMAIN files
                   /\ files[BackupOf(NewFile(th), th.backup_num)]
                        = files[NewFile(th)])
    /\ [][ \A t \in DOMAIN threads :
             BackupFailed(t) =>
                LET th == threads[t]
                IN  /\ files'[NewFile(th)] = files[NewFile(th)]
                    /\ threads'[t].migrated_count = th.migrated_count
                    /\ threads'[t].i = th.i + 1 ]_vars

\* a backup has failed and the worker went on: the target is what it was
\* when the worker started, and the file does not count as migrated
C3_Witness ==
    \E t \in DOMAIN threads :
       LET th == threads[t]
       IN  \E k \in 1..Len(th.log) :
              /\ th.log[k].outcome = "backup_failed"
              /\ k < th.i
              /\ th.backup_count = 0
              /\ th.migrated_count = 0
              /\ files[NewFileOf(th, th.log[k].bank_file)]
                   = th.files0[NewFileOf(th, th.log[k].bank_file)]

\* the bank files of the first n entries of a worker's log
Attempted(th) == [ k \in 1..Len(th.log) |-> th.log[k].bank_file ]
Migrated(th) == { k \in 1..Len(th.log) : th.log[k].outcome = "migrated" }

\* C4: when the worker reports, every selected file has been attempted
\* once, in order, and migrated_count is the number of files copied
C4_AllAttempted ==
    \A t \in DOMAIN threads :
       LET th == threads[t]
       IN  /\ th.migrated_count = Cardinality(Migrated(th))
           /\ th.pc = "emit" => Attempted(th) = th.selected_files
           /\ th.pc # "emit" =>
                Attempted(th) = SubSeq(th.selected_files, 1, Len(th.log))

\* three files were selected, the copy of the second failed, the third was
\* copied, and the worker is about to report migrated_count = 2
C4_Witness ==
    \E t \in DOMAIN threads :
       LET th == threads[t]
       IN  /\ th.pc = "emit"
           /\ Len(th.selected_files) = 3
           /\ th.log[1].outcome = "migrated"
           /\ th.log[2].outcome = "copy_failed"
           /\ th.log[3].outcome = "migrated"
           /\ th.migrated_count = 2
           /\ NewFileOf(th, th.selected_files[3]) \in DOMAIN files
           /\ NewFileOf(th, th.selected_files[3]) \notin DOMAIN th.files0

\* the files of a worker's log that were not migrated
Failed(th) ==
    { th.log[k].bank_file :
        k \in { j \in 1..Len(th.log) : th.log[j].outcome # "migrated" } }

\* C5: the result a worker is about to report names every selected file
\* whose backup or copy failed
C5_FailuresReported ==
    \A t \in DOMAIN threads :
       LET th == threads[t]
       IN  th.pc = "emit" =>
              Failed(th) \subseteq
                 failed_filenames(Result(TRUE, th.migrated_count, th.backup_count))

\* the new backups of file p since the worker th started
NewBackups(th, p) ==
    { q \in DOMAIN files \ DOMAIN th.files0 :
        q.dir = p.dir /\ q.name = p.name /\ q.bak > 0 }

\* C6: a batch without a failed backup or copy reports migrated_count = the
\* number of selected files and backup_count = the number of them whose
\* target existed at the start; every selected file is at the new location,
\* with one new backup if its target existed and none otherwise
C6_CleanBatch ==
    \A t \in DOMAIN threads :
       LET th == threads[t]
           sel == SeqToSet(th.selected_files)
           had == { f \in sel : NewFileOf(th, f) \in DOMAIN th.files0 }
       IN  th.pc = "emit" /\ Failed(th) = { } =>
              /\ th.migrated_count = Len(th.selected_files)
              /\ th.backup_count = Cardinality(had)
              /\ \A f \in sel :
                    /\ NewFileOf(th, f) \in DOMAIN files
                    /\ Cardinality(NewBackups(th, NewFileOf(th, f)))
                         = (IF f \in had THEN 1 ELSE 0)
                    /\ \A q \in NewBackups(th, NewFileOf(th, f)) :
                          files[q] = th.files0[NewFileOf(th, f)]

\* two files selected, the first at the old location only, the second at
\* both and without backups: the worker is about to report 2 and 1, and the
\* second file's former content is in its .bak1
C6_Witness ==
    \E t \in DOMAIN threads :
       LET th == threads[t]
       IN  /\ th.pc = "emit"
           /\ Len(th.selected_files) = 2
           /\ NewFileOf(th, th.selected_files[1]) \notin DOMAIN th.files0
           /\ NewFileOf(th, th.selected_files[2]) \in DOMAIN th.files0
           /\ \A q \in DOMAIN th.files0 : q.bak = 0
           /\ th.migrated_count = 2
           /\ th.backup_count = 1
           /\ BackupOf(NewFileOf(th, th.selected_files[2]), 1) \in DOMAIN files
           /\ files[BackupOf(NewFileOf(th, th.selected_files[2]), 1)]
                = th.files0[NewFileOf(th, th.selected_files[2])]
           /\ NewFileOf(th, th.selected_files[1]) \in DOMAIN files

\* C7: a batch in which no file was migrated is not reported as completed
C7_Outcome ==
    \A k \in 1..Len(signals) :
       signals[k].success => signals[k].migrated_count > 0

\* C8: a worker is started only by the answer Yes to the confirmation box
\* of its selection; the answer No starts none and changes no file; files
\* and directories change only while a worker runs
C8_ConfirmedFirst ==
    [][ /\ \A t \in DOMAIN threads' \ DOMAIN threads :
             /\ dialogs # << >>
             /\ dialogs[Len(dialogs)].kind = "confirm"
             /\ dialogs' = SubSeq(dialogs, 1, Len(dialogs) - 1)
             /\ reply' = "Yes"
             /\ threads'[t].selected_files = dialogs[Len(dialogs)].selected_files
             /\ threads'[t].pc = "mkdir"
        /\ ( /\ dialogs # << >>
             /\ dialogs[Len(dialogs)].kind = "confirm"
             /\ Len(dialogs') < Len(dialogs)
             /\ reply' = "No" )
           => /\ threads' = threads
              /\ worker' = worker
              /\ files' = files
              /\ dirs' = dirs
        /\ (files' # files \/ dirs' # dirs) => DOMAIN threads # { }
        /\ worker' # worker => DOMAIN threads' \ DOMAIN threads # { } ]_vars

\* after the answer Yes a worker is about to back up a colliding target
C8_Witness ==
    /\ reply = "Yes"
    /\ \E t \in DOMAIN threads :
          /\ threads[t].pc = "backup"
          /\ NewFile(threads[t]) \in DOMAIN files

\* C9: at most one batch is in flight: the workers that run and the
\* finished signals not yet handled are together at most one
C9_OneInFlight ==
    /\ Cardinality(DOMAIN threads) + Len(signals) <= 1
    /\ Cardinality(DOMAIN threads) + Len(signals) = worker - batches

\* a worker has reported and its signal is not yet handled: the button that
\* starts a batch is still disabled
C9_Witness ==
    /\ Len(signals) = 1
    /\ DOMAIN threads = { }
    /\ worker = 1
    /\ ~migrate_btn_enabled

\* from the copy of a file to the end of its resign step no other file is
\* handled and nothing is reported
BackToBack ==
    \A t \in DOMAIN threads :
       /\ CopyDone(t) =>
            threads'[t].pc = "resign" /\ threads'[t].i = threads[t].i
       /\ threads[t].pc = "resign" =>
            /\ signals' = signals
            /\ DOMAIN threads' = DOMAIN threads
            /\ \A u \in DOMAIN threads \ { t } : threads'[u] = threads[u]
            /\ \/ threads'[t] = threads[t]
               \/ /\ threads'[t].i = threads[t].i + 1
                  /\ threads'[t].log = threads[t].log

\* C10 as claimed: a finished signal is emitted only by a worker that has
\* attempted every selected file, and copy and resign run back to back
C10_Original ==
    [][ /\ \A t \in DOMAIN threads \ DOMAIN threads' :
             /\ signals' # signals
             /\ Attempted(threads[t]) = threads[t].selected_files
        /\ BackToBack ]_vars

\* C10: a worker reports success only when every selected file has been
\* attempted, and failure only when the directory could not be made, before
\* any file; from the copy of a file to the end of its resign step no other
\* file is handled and nothing is reported
C10_ReportLast ==
    [][ /\ \A t \in DOMAIN threads \ DOMAIN threads' :
             /\ signals' # signals
             /\ signals'[Len(signals')].success =>
                  /\ threads[t].pc = "emit"
                  /\ Attempted(threads[t]) = threads[t].selected_files
             /\ ~signals'[Len(signals')].success =>
                  /\ threads[t].pc = "mkdir"
                  /\ threads[t].log = << >>
                  /\ files' = files
        /\ signals' # signals /\ Len(signals') > Len(signals) =>
             DOMAIN threads \ DOMAIN threads' # { }
        /\ BackToBack ]_vars

\* a worker that migrated three files has reported
C10_Witness ==
    /\ Len(signals) = 1
    /\ signals[1].success
    /\ signals[1].migrated_count = 3

\* ---------------------------------------------------- discovery, evaluation
Manifest == { BANK_FILES[j] : j \in 1..Len(BANK_FILES) }
ManifestIndex(b) == CHOOSE j \in 1..Len(BANK_FILES) : BANK_FILES[j] = b

\* L holds manifest names only, in manifest order, none twice
InManifestOrder(L) ==
    /\ \A k \in 1..Len(L) : L[k] \in Manifest
    /\ \A k, l \in 1..Len(L) :
          k < l => ManifestIndex(L[k]) < ManifestIndex(L[l])

\* the manifest names that are files of the directory d
ManifestFilesAt(d) ==
    { b \in Manifest : [ dir |-> d, name |-> b, bak |-> 0 ] \in DOMAIN files }

OldDir(a) == a.path \o << "Banks", OLD_PUBLISHER_ID >>
NewDir(a) == a.path \o << "Banks", NEW_PUBLISHER_ID >>

\* a step in which on_account_selected evaluates the account it shows
Evaluates ==
    \/ current_row' # current_row
    \/ selected_account' # selected_account
    \/ /\ Len(dialogs') < Len(dialogs)
       /\ dialogs[Len(dialogs)].kind = "information"
       /\ current_row # 0

\* C11: for every listed account, on every disk reached, the migratable and
\* the collisions list hold manifest names only, none twice, in manifest
\* order, and exactly those present at the old and at the new location; a
\* step that evaluates an account changes no file and no directory and puts
\* the two lists into the bank list
C11_Evaluate ==
    /\ [](\A k \in 1..Len(accounts) :
            LET a == accounts[k]
                migratable == get_migratable_files(a)
                existing == get_existing_target_files(a)
            IN  /\ InManifestOrder(migratable)
                /\ InManifestOrder(existing)
                /\ SeqToSet(migratable) = ManifestFilesAt(OldDir(a))
                /\ SeqToSet(existing) = ManifestFilesAt(NewDir(a)))
    /\ [][ /\ bank_list' # bank_list => files' = files /\ dirs' = dirs
           /\ Evaluates =>
                LET a == accounts[selected_account']
                    shown == [ k \in 1..Len(bank_list') |->
                                 bank_list'[k].bank_file ]
                IN  /\ files' = files /\ dirs' = dirs
                    /\ InManifestOrder(shown)
                    /\ SeqToSet(shown) = ManifestFilesAt(OldDir(a))
                    /\ \A k \in 1..Len(bank_list') :
                          /\ bank_list'[k].checked
                          /\ bank_list'[k].warning
                               <=> shown[k] \in ManifestFilesAt(NewDir(a)) ]_vars

\* an account is shown whose old folder holds one manifest file and a file
\* that is not in the manifest, and whose new folder holds that manifest
\* file and another one: one row, with the warning
C11_Witness ==
    /\ selected_account # 0
    /\ Len(bank_list) = 1
    /\ bank_list[1].bank_file = BANK_FILES[1]
    /\ bank_list[1].warning
    /\ LET a == accounts[selected_account]
       IN  /\ [ dir |-> OldDir(a), name |-> OtherFile, bak |-> 0 ] \in DOMAIN files
           /\ ManifestFilesAt(NewDir(a)) = { BANK_FILES[1], BANK_FILES[3] }
           /\ get_existing_target_files(a) = << BANK_FILES[1], BANK_FILES[3] >>

\* the handle folders: the directories two levels below Accounts
HandleFolders ==
    { d \in dirs : Len(d) = Len(AccountsPath) + 2
                   /\ \A i \in 1..Len(AccountsPath) : d[i] = AccountsPath[i] }

\* the name h begins with 5-S2-1
HasRequiredPrefix(h) ==
    /\ Len(h) >= 6
    /\ << h[1], h[2], h[3], h[4], h[5], h[6] >> = << "5", "-", "S", "2", "-", "1" >>

\* C12: the account list holds, once each, exactly the handle folders whose
\* name has the required prefix and whose old location holds at least one
\* manifest file, with the folder's names as battle.net id and handle
C12_Scanned ==
    /\ \A k, l \in 1..Len(accounts) :
          accounts[k].path = accounts[l].path => k = l
    /\ { accounts[k].path : k \in 1..Len(accounts) }
         = { d \in HandleFolders :
               /\ HasRequiredPrefix(d[Len(d)])
               /\ \E b \in Manifest :
                     [ dir |-> d \o << "Banks", OLD_PUBLISHER_ID >>,
                       name |-> b, bak |-> 0 ] \in DOMAIN files }
    /\ \A k \in 1..Len(accounts) :
          LET a == accounts[k]
          IN  /\ a.handle = a.path[Len(a.path)]
              /\ a.battle_net_id = a.path[Len(a.path) - 1]

\* one account is listed; beside it lie a folder of another region that
\* holds old banks, or a folder of the region whose old location holds no
\* manifest file
C12_Witness ==
    /\ Len(accounts) = 1
    /\ \E d \in HandleFolders :
          /\ d # accounts[1].path
          /\ \E p \in DOMAIN files :
                p.dir = d \o << "Banks", OLD_PUBLISHER_ID >>
          /\ \/ ~HasRequiredPrefix(d[Len(d)])
             \/ \A p \in DOMAIN files :
                   p.dir = d \o << "Banks", OLD_PUBLISHER_ID >>
                     => p.name \notin Manifest

\* the StarCraft II folder or its Accounts folder is missing
RootMissing ==
    \/ << "StarCraft II" >> \notin dirs
    \/ << "StarCraft II", "Accounts" >> \notin dirs

\* C13: when the StarCraft II folder or its Accounts folder is missing, the
\* scan has shown the error that names the missing folder, no account is
\* listed or selected, the migrate button is disabled, no worker was ever
\* started, and no step changes a file or a directory or starts a worker
C13_MissingRoot ==
    /\ [](RootMissing =>
            /\ scan_message = (IF << "StarCraft II" >> \notin dirs
                               THEN "no_sc2" ELSE "no_accounts")
            /\ accounts = << >>
            /\ selected_account = 0
            /\ ~migrate_btn_enabled
            /\ worker = 0
            /\ DOMAIN threads = { }
            /\ signals = << >>)
    /\ [][ (scan_message \in { "no_sc2", "no_accounts" }) =>
             (files' = files /\ dirs' = dirs /\ threads' = threads
              /\ worker' = worker /\ accounts' = accounts) ]_vars

\* the StarCraft II folder is there, its Accounts folder is not: the scan
\* has said so and the window shows no account
C13_Witness ==
    /\ << "StarCraft II" >> \in dirs
    /\ << "StarCraft II", "Accounts" >> \notin dirs
    /\ scan_message = "no_accounts"
    /\ accounts = << >>
    /\ ~migrate_btn_enabled

\* C14: the resign step of a file leaves the worker running with the same
\* counts and no failure logged, reports nothing, and hands over to the next
\* selected file, or to the report after the last one, whatever it did to
\* the file; the count reported is the number of files copied
C14_ResignNeutral ==
    /\ [](\A t \in DOMAIN threads :
            threads[t].pc = "emit" =>
               threads[t].migrated_count = Cardinality(Migrated(threads[t])))
    /\ [][ \A t \in DOMAIN threads :
             threads[t].pc = "resign" /\ threads'[t] # threads[t] =>
                LET th == threads[t]
                IN  /\ t \in DOMAIN threads'
                    /\ signals' = signals
                    /\ th.log[Len(th.log)] =
                         [ bank_file |-> th.selected_files[th.i],
                           outcome |-> "migrated" ]
                    /\ threads'[t].log = th.log
                    /\ threads'[t].migrated_count = th.migrated_count
                    /\ threads'[t].backup_count = th.backup_count
                    /\ threads'[t].i = th.i + 1
                    /\ threads'[t].selected_files = th.selected_files
                    /\ IF th.i = Len(th.selected_files)
                       THEN threads'[t].pc = "emit"
                       ELSE threads'[t].pc \in { "backup", "copy" } ]_vars

\* three files were copied; resign failed while it wrote the first and
\* returned False for the third, which has no closing tag: the worker is
\* about to report 3
C14_Witness ==
    \E t \in DOMAIN threads :
       LET th == threads[t]
       IN  /\ th.pc = "emit"
           /\ Len(th.selected_files) = 3
           /\ th.migrated_count = 3
           /\ files[NewFileOf(th, th.selected_files[1])] = << >>
           /\ files[NewFileOf(th, th.selected_files[3])]
                = files[[ dir |-> th.account.path \o << "Banks", OLD_PUBLISHER_ID >>,
                          name |-> th.selected_files[3], bak |-> 0 ]]
           /\ files[NewFileOf(th, th.selected_files[2])]
                # files[[ dir |-> th.account.path \o << "Banks", OLD_PUBLISHER_ID >>,
                          name |-> th.selected_files[2], bak |-> 0 ]]

\* the worker t runs its resign step in this step
Resigns(t) ==
    /\ t \in DOMAIN threads /\ t \in DOMAIN threads'
    /\ threads[t].pc = "resign"
    /\ threads'[t].i = threads[t].i + 1

\* C15: when resign_bank_file returns False, the file holds what it held
\* when resign_bank_file was called
C15_ResignAtomic ==
    [][ \A t \in DOMAIN threads :
          Resigns(t) /\ threads'[t].resigned = "False" =>
             /\ NewFile(threads[t]) \in DOMAIN files'
             /\ files'[NewFile(threads[t])] = files[NewFile(threads[t])] ]_vars

\* a maximum for the probing: the largest number of backups the disk may
\* hold before the program starts
ProbeLimit == MaxBak

\* C16: when every backup name of the target up to the maximum is taken,
\* the backup step gives the file up as failed and writes no file
C16_ProbeBounded ==
    [][ \A t \in DOMAIN threads :
          ( /\ threads[t].pc = "backup"
            /\ t \in DOMAIN threads'
            /\ threads'[t] # threads[t]
            /\ \A n \in 1..ProbeLimit :
                  BackupOf(NewFile(threads[t]), n) \in DOMAIN files )
          => /\ DOMAIN files' = DOMAIN files
             /\ threads'[t].backup_count = threads[t].backup_count
             /\ Len(threads'[t].log) = Len(threads[t].log) + 1
             /\ threads'[t].log[Len(threads'[t].log)].outcome
                  = "backup_failed" ]_vars

\* C17: a worker's selected files are never empty and are manifest names in
\* manifest order; the files it has handled are the first of them, in that
\* order, one per step; and a worker is started with exactly the names that
\* are checked in the bank list
C17_ManifestOrder ==
    /\ [](\A t \in DOMAIN threads :
            LET th == threads[t]
            IN  /\ th.selected_files # << >>
                /\ InManifestOrder(th.selected_files)
                /\ Len(th.log) <= Len(th.selected_files)
                /\ \A k \in 1..Len(th.log) :
                      th.log[k].bank_file = th.selected_files[k]
                /\ th.pc \in { "backup", "copy" } => th.i = Len(th.log) + 1
                /\ th.pc \in { "resign", "emit" } => th.i >= Len(th.log))
    /\ [][ /\ \A t \in DOMAIN threads' \ DOMAIN threads :
                SeqToSet(threads'[t].selected_files)
                  = { bank_list[k].bank_file :
                        k \in { j \in 1..Len(bank_list) : bank_list[j].checked } }
           /\ \A t \in DOMAIN threads \cap DOMAIN threads' :
                /\ threads'[t].selected_files = threads[t].selected_files
                /\ Len(threads'[t].log) <= Len(threads[t].log) + 1 ]_vars

\* three files are listed and the second is unticked: the worker was handed
\* the first and the third, has copied the first and is at the third
C17_Witness ==
    /\ Len(bank_list) = 3
    /\ ~bank_list[2].checked
    /\ \E t \in DOMAIN threads :
          /\ threads[t].selected_files = << BANK_FILES[1], BANK_FILES[4] >>
          /\ threads[t].i = 2
          /\ threads[t].pc = "copy"
          /\ threads[t].log[1].outcome = "migrated"

\* the number of signature elements in the text c
SignatureCount(c) == Cardinality({ k \in 1..Len(c) : c[k] = SigL })

\* C18: when resign_bank_file returns True, a text with a signature element
\* has the value of that element replaced and is otherwise as it was, a text
\* without one has a signature element put in right before the closing tag
\* and is otherwise as it was; the text then holds one signature element
C18_OneSignature ==
    [][ \A t \in DOMAIN threads :
          Resigns(t) /\ threads'[t].resigned = "True" =>
             LET before == files[NewFile(threads[t])]
                 after == files'[NewFile(threads[t])]
             IN  /\ SignatureCount(after) = 1
                 /\ IF SignatureCount(before) = 0
                    THEN /\ Len(after) = Len(before) + 3
                         /\ SubSeq(after, 1, Len(before) - 1)
                              = SubSeq(before, 1, Len(before) - 1)
                         /\ after[Len(before)] = SigL
                         /\ after[Len(before) + 2] = SigR
                         /\ after[Len(after)] = before[Len(before)]
                    ELSE /\ Len(after) = Len(before)
                         /\ \A k \in 1..Len(before) :
                               after[k] # before[k] =>
                                  k > 1 /\ before[k - 1] = SigL ]_vars

\* C19: no step removes a file or a directory; a step changes or creates a
\* file only in the new folder of the account of a running worker, under
\* the name of a file selected for it, and a backup file only by creating
\* it; a directory is created only on the way to that folder
C19_Frame ==
    [][ /\ DOMAIN files \subseteq DOMAIN files'
        /\ dirs \subseteq dirs'
        /\ \A p \in DOMAIN files' :
              (p \notin DOMAIN files \/ files'[p] # files[p]) =>
                 \E t \in DOMAIN threads :
                    /\ p.dir = NewDir(threads[t].account)
                    /\ p.name \in SeqToSet(threads[t].selected_files)
                    /\ p.bak > 0 => p \notin DOMAIN files
        /\ \A d \in dirs' \ dirs :
              \E t \in DOMAIN threads :
                 /\ Len(d) <= Len(NewDir(threads[t].account))
                 /\ d = SubSeq(NewDir(threads[t].account), 1, Len(d)) ]_vars

\* two accounts are listed; a worker for one of them has backed up and
\* overwritten a file beside a backup that was there; the old folder, that
\* backup and the other account's files are as they were
C19_Witness ==
    /\ Len(accounts) = 2
    /\ \E t \in DOMAIN threads :
          LET th == threads[t]
          IN  /\ th.pc = "emit"
              /\ th.migrated_count = 2
              /\ th.backup_count = 1
              /\ \E p \in DOMAIN files : p.bak = 2 /\ p.dir = NewDir(th.account)
              /\ \E p \in DOMAIN th.files0 : p.bak = 1 /\ p.dir = NewDir(th.account)
              /\ \E p \in DOMAIN th.files0 :
                    p.dir \notin { OldDir(th.account), NewDir(th.account) }
              /\ \A p \in DOMAIN th.files0 :
                    (p.dir # NewDir(th.account) \/ p.bak > 0) =>
                       files[p] = th.files0[p]

AllEnabled == account_list_enabled /\ bank_group_enabled /\ migrate_btn_enabled
NoneEnabled ==
    ~account_list_enabled /\ ~bank_group_enabled /\ ~migrate_btn_enabled

\* C20: a worker that ends has sent one finished signal in the step in
\* which it ends, and no signal is sent otherwise; while a worker runs or
\* its signal waits, the account list, the bank list and the migrate button
\* are disabled, and the step that handles the signal enables them; every
\* batch started is in the end handled with the three controls enabled
C20_Finishes ==
    /\ [](DOMAIN threads # { } \/ signals # << >> => NoneEnabled)
    /\ [][ /\ \A t \in DOMAIN threads \ DOMAIN threads' :
                /\ Len(signals') = Len(signals) + 1
                /\ signals'[Len(signals')].success <=> threads[t].pc = "emit"
           /\ Len(signals') > Len(signals) =>
                Cardinality(DOMAIN threads \ DOMAIN threads') = 1
           /\ batches' # batches =>
                /\ batches' = batches + 1
                /\ Len(signals') = Len(signals) - 1
                /\ AllEnabled'
           /\ DOMAIN threads' \ DOMAIN threads # { } => NoneEnabled' ]_vars
    /\ \A n \in 1..(MaxBatches + 1) :
          (worker = n) ~> (batches = n /\ AllEnabled)

\* a batch in which the only selected file failed has been reported as
\* finished with no file migrated, and handled: the controls are enabled
\* again
C20_Witness ==
    /\ worker = 1
    /\ batches = 1
    /\ faults = 1
    /\ AllEnabled
    /\ dialogs # << >>
    /\ dialogs[Len(dialogs)].kind = "information"
    /\ dialogs[Len(dialogs)].a = 0

=============================================================================
